---- MODULE Spec2Model ----
(***************************************************************************)
(* A model of planner/db_access.py: the construction of a PlannerAccess    *)
(* object (load config.json, build the MongoDB client, ping), the six      *)
(* stubbed query methods, and the task-query validation predicate.         *)
(*                                                                         *)
(* The interpreter is single threaded: at most one construction or call    *)
(* is in progress.  The environment is the file config.json, which may be  *)
(* rewritten between constructions and removed between the existence check *)
(* and the open, and the database, whose answer to a ping is chosen when   *)
(* the ping is sent.                                                       *)
(***************************************************************************)
EXTENDS Integers, Sequences, FiniteSets, TLC

VARIABLES
    fs,          \* the state of the file config.json
    pc,          \* pc[p]: where the construction of planner p stands
    planner,     \* planner[p]: the attributes of object p
    exists_rv,   \* exists_rv[p]: what os.path.exists returned in p's _load_config
    load_rc,     \* load_rc[p]: what _load_config returned in p's __init__
    connect_rc,  \* connect_rc[p]: what _connect returned in p's __init__
    pinged,      \* pinged[p]: the reply to the ping p's _connect sent
    exc,         \* exc[p]: the exception that escaped p's __init__
    call         \* the method call that has just returned, if any

vars == <<fs, pc, planner, exists_rv, load_rc, connect_rc, pinged, exc, call>>

\* The PlannerAccess objects a run constructs, in this order.
Planners == {1, 2}

-----------------------------------------------------------------------------
(* class InitCode *)

OK == "InitCode.OK"
FAIL == "InitCode.FAIL"
DATABASE_UNREACHABLE == "InitCode.DATABASE_UNREACHABLE"
MISSING_CONFIG == "InitCode.MISSING_CONFIG"
BAD_CONFIG == "InitCode.BAD_CONFIG"

InitCode == {OK, FAIL, DATABASE_UNREACHABLE, MISSING_CONFIG, BAD_CONFIG}

\* A Python bool; a boolean method yields one of these or the name of the
\* exception it raises.
Bool(b) == IF b THEN "True" ELSE "False"

\* A return value or attribute that has not been produced.
NotSet == "<not set>"
NoException == "<none>"

-----------------------------------------------------------------------------
(* config.json and its parsed content *)

JString(s) == [jtype |-> "string", v |-> s]
JNumber(s) == [jtype |-> "number", v |-> s]

\* A parsed JSON document: an object with its members, or something else.
JObject(members) == [jtype |-> "object", members |-> members]
NoMembers == [k \in {} |-> JString("")]
JArray == [jtype |-> "array", members |-> NoMembers]
NoDocument == [jtype |-> "<none>", members |-> NoMembers]

\* The URIs of tests/test_db_connection_failure.py, by what MongoClient
\* does with them.
GoodURI == "mongodb://localhost:27017/"
InvalidSchemeURIs == {"bogusprotocol://localhost:27017/"}
BadPortURIs == {"mongodb://localhost:strange_port/"}
EmptyURI == ""

UriValues ==
    {JString(GoodURI), JString(EmptyURI), JNumber("123")}
        \cup {JString(u) : u \in InvalidSchemeURIs \cup BadPortURIs}

TimeoutValue == JNumber("2000")

ConfigDocuments ==
    {JArray,
     JObject([k \in {"uri"} |-> JString(GoodURI)]),
     JObject([k \in {"timeout_ms"} |-> TimeoutValue])}
        \cup {JObject([k \in {"uri", "timeout_ms"} |->
                         IF k = "uri" THEN u ELSE TimeoutValue]) : u \in UriValues}

Absent == [state |-> "absent", json |-> NoDocument]
NotJson == [state |-> "not json", json |-> NoDocument]
JsonFile(doc) == [state |-> "json", json |-> doc]

FileStates == {Absent, NotJson} \cup {JsonFile(d) : d \in ConfigDocuments}

GoodConfig ==
    JObject([k \in {"uri", "timeout_ms"} |->
               IF k = "uri" THEN JString(GoodURI) ELSE TimeoutValue])

-----------------------------------------------------------------------------
(* PlannerAccess objects *)

\* The arguments each object is constructed with: the defaults of line 35,
\* and those of the fixture of tests/test_db_queries.py.
CtorArgs ==
    [p \in Planners |->
       IF p = 1
       THEN [db_name |-> "planner_db", col_name |-> "planner_col"]
       ELSE [db_name |-> "test_planner_db", col_name |-> "test_planner_col"]]

NoClient == "<no client>"
Client == "MongoClient"

\* An object before __init__ has assigned anything: the annotations of
\* lines 38-40 create no attribute.
Blank ==
    [config |-> NoDocument, client |-> NoClient, init_state |-> NotSet,
     db_name |-> NotSet, col_name |-> NotSet]

-----------------------------------------------------------------------------
(* PlannerAccess._load_config *)

\* os.path.exists("config.json")
path_exists(file) == file.state # "absent"

\* json.load: the parsed document, or JSONDecodeError.
json_load(file) ==
    IF file.state = "json"
    THEN [exc |-> NoException, doc |-> file.json]
    ELSE [exc |-> "JSONDecodeError", doc |-> NoDocument]

\* Variant: the FileNotFoundError handler returns BAD_CONFIG.
read_config_missing_as_bad(file, config) ==
    IF ~path_exists(file)
    THEN [rc |-> BAD_CONFIG, config |-> config]
    ELSE IF json_load(file).exc = "JSONDecodeError"
         THEN [rc |-> BAD_CONFIG, config |-> config]
         ELSE [rc |-> OK, config |-> json_load(file).doc]

\* The try block of _load_config, run on the file as it is at the open:
\* the code returned and the value self.config has afterwards.
read_config(file, config) ==
    IF ~path_exists(file)
    THEN [rc |-> MISSING_CONFIG, config |-> config]       \* FileNotFoundError
    ELSE IF json_load(file).exc = "JSONDecodeError"
         THEN [rc |-> BAD_CONFIG, config |-> config]
         ELSE [rc |-> OK, config |-> json_load(file).doc]

-----------------------------------------------------------------------------
(* PlannerAccess._connect *)

\* self.config[key]: reading an attribute that was never assigned raises
\* AttributeError, a non-object is not subscriptable by a string, and an
\* object without the key raises KeyError.
subscript(doc, key) ==
    IF doc.jtype = "<none>" THEN [exc |-> "AttributeError", value |-> JString("")]
    ELSE IF doc.jtype # "object" THEN [exc |-> "TypeError", value |-> JString("")]
    ELSE IF key \notin DOMAIN doc.members
         THEN [exc |-> "KeyError", value |-> JString("")]
         ELSE [exc |-> NoException, value |-> doc.members[key]]

\* MongoClient(host, serverSelectionTimeoutMS=...): the exception the
\* constructor raises, if any.
MongoClientNew(host, timeout_ms) ==
    IF host.jtype # "string" THEN "TypeError"
    ELSE IF host.v = EmptyURI THEN "ConfigurationError"
    ELSE IF host.v \in InvalidSchemeURIs THEN "InvalidURI"
    ELSE IF host.v \in BadPortURIs THEN "ValueError"
    ELSE NoException

\* The first try block of _connect: the exception raised while the
\* arguments are evaluated and the client is built.
client_exception(config) ==
    IF subscript(config, "uri").exc # NoException
    THEN subscript(config, "uri").exc
    ELSE IF subscript(config, "timeout_ms").exc # NoException
         THEN subscript(config, "timeout_ms").exc
         ELSE MongoClientNew(subscript(config, "uri").value,
                             subscript(config, "timeout_ms").value)

\* What the first try block leaves: an exception that escapes, the code
\* it returns (NotSet when _connect goes on to the ping), and the client.
connect_client(config) ==
    LET e == client_exception(config) IN
    IF e = "TypeError"
    THEN [exc |-> NoException, rc |-> BAD_CONFIG, client |-> NoClient]
    ELSE IF e # NoException
         THEN [exc |-> e, rc |-> NotSet, client |-> NoClient]
         ELSE [exc |-> NoException, rc |-> NotSet, client |-> Client]

\* What client.admin.command("ping") can do.
NoPing == [exc |-> NoException, ok |-> "<no ping>"]
PingReplies ==
    {[exc |-> NoException, ok |-> "1.0"],
     [exc |-> NoException, ok |-> "0.0"],
     [exc |-> "ServerSelectionTimeoutError", ok |-> "-"],
     [exc |-> "AutoReconnect", ok |-> "-"]}

\* Variant: the reply's "ok" field is not looked at.
ping_result_ignoring_ok(reply) ==
    IF reply.exc = "ServerSelectionTimeoutError"
    THEN [exc |-> NoException, rc |-> DATABASE_UNREACHABLE]
    ELSE IF reply.exc # NoException
         THEN [exc |-> reply.exc, rc |-> NotSet]
         ELSE [exc |-> NoException, rc |-> OK]

\* The second try block of _connect.
ping_result(reply) ==
    IF reply.exc = "ServerSelectionTimeoutError"
    THEN [exc |-> NoException, rc |-> DATABASE_UNREACHABLE]
    ELSE IF reply.exc # NoException
         THEN [exc |-> reply.exc, rc |-> NotSet]
         ELSE IF reply.ok # "1.0"
              THEN [exc |-> NoException, rc |-> DATABASE_UNREACHABLE]
              ELSE [exc |-> NoException, rc |-> OK]

-----------------------------------------------------------------------------
(* PlannerAccess.__init__ *)

\* Variant: _connect is called whatever _load_config returned.
connect_always(rc) == TRUE

\* Line 46, the left operand of "and": _connect is called only when
\* _load_config returned OK.
connect_attempted(rc) == rc = OK

\* Variant: "or" in place of "and".
init_decision_or(l_rc, c_rc) ==
    IF l_rc = OK \/ c_rc = OK THEN OK ELSE FAIL

\* Lines 46-49: the value given to init_state.
init_decision(l_rc, c_rc) ==
    IF l_rc = OK /\ c_rc = OK THEN OK ELSE FAIL

AfterLoad(rc) == IF connect_attempted(rc) THEN "connect_client" ELSE "finish"

Finished == {"done", "raised"}

\* Nothing is running: no construction is under way and no call is being
\* returned from.
Quiet == call.op = "<none>" /\ \A p \in Planners : pc[p] \in Finished \cup {"idle"}

\* planner = PlannerAccess(db_name, col_name): lines 42-43.
Begin(p) ==
    /\ Quiet
    /\ pc[p] = "idle"
    /\ \A q \in Planners : q < p => pc[q] \in Finished
    /\ planner' = [planner EXCEPT ![p].db_name = CtorArgs[p].db_name,
                                  ![p].col_name = CtorArgs[p].col_name]
    /\ pc' = [pc EXCEPT ![p] = "load_exists"]
    /\ UNCHANGED <<fs, exists_rv, load_rc, connect_rc, pinged, exc, call>>

\* _load_config, lines 55-56.
LoadExists(p) ==
    /\ pc[p] = "load_exists"
    /\ exists_rv' = [exists_rv EXCEPT ![p] = Bool(path_exists(fs))]
    /\ IF path_exists(fs)
       THEN /\ pc' = [pc EXCEPT ![p] = "load_open"]
            /\ UNCHANGED load_rc
       ELSE /\ load_rc' = [load_rc EXCEPT ![p] = MISSING_CONFIG]
            /\ pc' = [pc EXCEPT ![p] = AfterLoad(MISSING_CONFIG)]
    /\ UNCHANGED <<fs, planner, connect_rc, pinged, exc, call>>

\* _load_config, lines 59-71.
LoadOpen(p) ==
    /\ pc[p] = "load_open"
    /\ LET r == read_config(fs, planner[p].config) IN
         /\ planner' = [planner EXCEPT ![p].config = r.config]
         /\ load_rc' = [load_rc EXCEPT ![p] = r.rc]
         /\ pc' = [pc EXCEPT ![p] = AfterLoad(r.rc)]
    /\ UNCHANGED <<fs, exists_rv, connect_rc, pinged, exc, call>>

\* _connect, lines 76-81.
ConnectClient(p) ==
    /\ pc[p] = "connect_client"
    /\ LET r == connect_client(planner[p].config) IN
         /\ planner' = [planner EXCEPT ![p].client = r.client]
         /\ exc' = [exc EXCEPT ![p] = r.exc]
         /\ connect_rc' = [connect_rc EXCEPT ![p] = r.rc]
         /\ pc' = [pc EXCEPT ![p] =
                     IF r.exc # NoException THEN "raised"
                     ELSE IF r.rc # NotSet THEN "finish"
                     ELSE "connect_ping"]
    /\ UNCHANGED <<fs, exists_rv, load_rc, pinged, call>>

\* _connect, lines 83-90.
ConnectPing(p) ==
    /\ pc[p] = "connect_ping"
    /\ \E reply \in PingReplies :
         LET r == ping_result(reply) IN
           /\ pinged' = [pinged EXCEPT ![p] = reply]
           /\ exc' = [exc EXCEPT ![p] = r.exc]
           /\ connect_rc' = [connect_rc EXCEPT ![p] = r.rc]
           /\ pc' = [pc EXCEPT ![p] =
                       IF r.exc # NoException THEN "raised" ELSE "finish"]
    /\ UNCHANGED <<fs, planner, exists_rv, load_rc, call>>

\* __init__, lines 46-49.
Finish(p) ==
    /\ pc[p] = "finish"
    /\ planner' = [planner EXCEPT
                     ![p].init_state = init_decision(load_rc[p], connect_rc[p])]
    /\ pc' = [pc EXCEPT ![p] = "done"]
    /\ UNCHANGED <<fs, exists_rv, load_rc, connect_rc, pinged, exc, call>>

\* PlannerAccess.get_initialization_code
get_initialization_code(self) == self.init_state

-----------------------------------------------------------------------------
(* The environment *)

\* config.json is written, replaced or removed before a construction.
WriteConfig ==
    /\ Quiet
    /\ \E p \in Planners : pc[p] = "idle"
    /\ \E f \in FileStates : f # fs /\ fs' = f
    /\ UNCHANGED <<pc, planner, exists_rv, load_rc, connect_rc, pinged, exc, call>>

\* config.json disappears between the existence check and the open.
RemoveConfig ==
    /\ \E p \in Planners : pc[p] = "load_open"
    /\ fs # Absent
    /\ fs' = Absent
    /\ UNCHANGED <<pc, planner, exists_rv, load_rc, connect_rc, pinged, exc, call>>

-----------------------------------------------------------------------------
(* Python values passed to the query methods *)

\* A value is its exact type, its content, and for a mapping its items in
\* insertion order.
Scalar(t, v) == [type |-> t, val |-> v, items |-> <<>>]
Mapping(t, items) == [type |-> t, val |-> "", items |-> items]

PyStr(s) == Scalar("str", s)
PyStrSubclass(s) == Scalar("str subclass", s)
PyInt(s) == Scalar("int", s)
PyDate(s) == Scalar("date", s)
PyDateTime(s) == Scalar("datetime", s)       \* datetime is a subclass of date
PyNone == Scalar("NoneType", "None")
PyList == Scalar("list", "[]")

StrTypes == {"str", "str subclass"}
DictTypes == {"dict", "OrderedDict"}       \* OrderedDict is a subclass of dict

\* a == b for the values used as keys: a str and an instance of a str
\* subclass with the same characters are equal (and hash alike).
PyEq(a, b) ==
    IF a.type \in StrTypes /\ b.type \in StrTypes
    THEN a.val = b.val
    ELSE a = b

MaxKeys == 2

KeyValues ==
    {PyStr("date"), PyStr("task_desc"), PyStr("daet"), PyStrSubclass("date"), PyInt("0")}
ItemValues ==
    {PyDate("2025-07-25"), PyDateTime("2025-07-25 10:00"),
     PyStr("my cool task"), PyStr(""), PyInt("1000")}

\* The item lists a dict of n keys can hold: no two keys are equal.
ItemLists(n) ==
    {s \in [1..n -> KeyValues \X ItemValues] :
       \A i, j \in 1..n : i < j => ~PyEq(s[i][1], s[j][1])}

Dicts == UNION {{Mapping("dict", s) : s \in ItemLists(n)} : n \in 0..MaxKeys}

\* Instances of a dict subclass holding the two task fields.
OrderedDicts ==
    {Mapping("OrderedDict", <<<<PyStr("date"), d>>, <<PyStr("task_desc"), s>>>>) :
       d \in ItemValues, s \in ItemValues}

Queries == Dicts \cup OrderedDicts \cup {PyNone, PyList, PyStr("my cool task")}

\* Queries of tests/test_db_queries.py.
TestQueries ==
    {Mapping("dict", <<<<PyStr("date"), PyDate("2025-07-25")>>,
                       <<PyStr("task_desc"), PyStr("my cool task")>>>>),
     Mapping("dict", <<<<PyStr("task_desc"), PyStr("my cool task")>>,
                       <<PyStr("date"), PyDate("2025-07-25")>>>>),
     Mapping("dict", <<<<PyStr("daet"), PyDate("2025-07-25")>>,
                       <<PyStr("task_desc"), PyStr("my cool task")>>>>),
     Mapping("dict", <<<<PyStr("date"), PyDate("2025-07-25")>>>>),
     Mapping("dict", <<<<PyStr("date"), PyStr("my cool task")>>,
                       <<PyStr("task_desc"), PyDate("2025-07-25")>>>>),
     Mapping("dict", <<<<PyStr("date"), PyDate("2025-07-25")>>,
                       <<PyStr("task_desc"), PyStr("")>>>>),
     PyNone}

-----------------------------------------------------------------------------
(* PlannerAccess.validate_task_query *)

\* list(task_query.keys())
keys(task_query) == [i \in 1..Len(task_query.items) |-> task_query.items[i][1]]

\* name in fields: list membership compares with ==
contains(fields, name) == \E i \in 1..Len(fields) : PyEq(fields[i], PyStr(name))

\* task_query[name]
getitem(task_query, name) ==
    IF task_query.type \notin DictTypes
    THEN [exc |-> "TypeError", value |-> PyNone]
    ELSE IF \E i \in 1..Len(task_query.items) :
              PyEq(task_query.items[i][1], PyStr(name))
         THEN [exc |-> NoException,
               value |-> task_query.items[
                   CHOOSE i \in 1..Len(task_query.items) :
                       PyEq(task_query.items[i][1], PyStr(name))][2]]
         ELSE [exc |-> "KeyError", value |-> PyNone]

\* a and b: b is evaluated only when a is true.
PyAnd(a, b) == IF a = "True" THEN b ELSE a

\* Variant: the field check also looks at the type of the 'date' value.
task_key_check_typed(self, task_query) ==
    IF task_query.type \notin DictTypes THEN "AttributeError"
    ELSE LET fields == keys(task_query) IN
         IF Len(fields) # 2 THEN "False"
         ELSE IF \E i \in 1..Len(fields) : fields[i].type # "str" THEN "False"
         ELSE IF ~(contains(fields, "task_desc") /\ contains(fields, "date"))
         THEN "False"
         ELSE Bool(getitem(task_query, "date").value.type = "date")

\* Variant: the keys are compared with the list in one fixed order.
task_key_check_ordered(self, task_query) ==
    IF task_query.type \notin DictTypes THEN "AttributeError"
    ELSE Bool(keys(task_query) = <<PyStr("date"), PyStr("task_desc")>>)

task_key_check(self, task_query) ==
    IF task_query.type \notin DictTypes THEN "AttributeError"  \* no keys()
    ELSE LET fields == keys(task_query) IN
         IF Len(fields) # 2 THEN "False"
         ELSE IF \E i \in 1..Len(fields) : fields[i].type # "str" THEN "False"
         ELSE Bool(contains(fields, "task_desc") /\ contains(fields, "date"))

\* Variant: isinstance(value, date) in place of type(value) is date.
task_value_check_isinstance(self, task_query) ==
    LET d == getitem(task_query, "date")
        t == getitem(task_query, "task_desc") IN
    IF d.exc # NoException THEN d.exc
    ELSE IF d.value.type \notin {"date", "datetime"} THEN "False"
    ELSE IF t.exc # NoException THEN t.exc
    ELSE IF t.value.type # "str" THEN "False"
    ELSE Bool(t.value.val # "")

task_value_check(self, task_query) ==
    LET d == getitem(task_query, "date")
        t == getitem(task_query, "task_desc") IN
    IF d.exc # NoException THEN d.exc                     \* KeyError
    ELSE IF d.value.type # "date" THEN "False"
    ELSE IF t.exc # NoException THEN t.exc
    ELSE IF t.value.type # "str" THEN "False"
    ELSE Bool(t.value.val # "")

\* Variant: the value check is evaluated before the key check.
validate_task_query_eager(self, task_query) ==
    IF task_query.type # "dict" THEN "False"
    ELSE IF task_value_check(self, task_query) \notin {"True", "False"}
    THEN task_value_check(self, task_query)
    ELSE PyAnd(task_key_check(self, task_query),
               task_value_check(self, task_query))

validate_task_query(self, task_query) ==
    IF task_query.type # "dict" THEN "False"
    ELSE PyAnd(task_key_check(self, task_query),
               task_value_check(self, task_query))

-----------------------------------------------------------------------------
(* The query methods, lines 97-113: the object afterwards and the value     *)
(* returned.                                                               *)

\* Variant: insert_task marks the object as failed.
insert_task_resets(self, task) ==
    [self |-> [self EXCEPT !.init_state = FAIL], ret |-> "None"]

insert_task(self, task) == [self |-> self, ret |-> "None"]
delete_task(self, task) == [self |-> self, ret |-> "None"]
update_task(self, task, new_task) == [self |-> self, ret |-> "None"]
get_tasks(self, date) == [self |-> self, ret |-> "None"]
delete_date_tasks(self, date) == [self |-> self, ret |-> "None"]
delete_all_tasks(self) == [self |-> self, ret |-> "None"]

NoCall == [op |-> "<none>", self |-> 0, args |-> <<>>, ret |-> "None"]

\* A method of planner p can be called: the object exists and nothing else
\* is running.
Callable(p) == Quiet /\ pc[p] = "done"

\* Method op of planner p is called with args and returns r.ret, leaving
\* the object as r.self.
Invoke(p, op, args, r) ==
    /\ planner' = [planner EXCEPT ![p] = r.self]
    /\ call' = [op |-> op, self |-> p, args |-> args, ret |-> r.ret]
    /\ UNCHANGED <<fs, pc, exists_rv, load_rc, connect_rc, pinged, exc>>

InsertTask(p) ==
    /\ Callable(p)
    /\ \E t \in TestQueries :
         Invoke(p, "insert_task", <<t>>, insert_task(planner[p], t))

DeleteTask(p) ==
    /\ Callable(p)
    /\ \E t \in TestQueries :
         Invoke(p, "delete_task", <<t>>, delete_task(planner[p], t))

UpdateTask(p) ==
    /\ Callable(p)
    /\ \E t \in TestQueries :
         Invoke(p, "update_task", <<t, t>>, update_task(planner[p], t, t))

GetTasks(p) ==
    /\ Callable(p)
    /\ \E d \in {PyDate("2025-07-25"), PyNone} :
         Invoke(p, "get_tasks", <<d>>, get_tasks(planner[p], d))

DeleteDateTasks(p) ==
    /\ Callable(p)
    /\ \E d \in {PyDate("2025-07-25"), PyNone} :
         Invoke(p, "delete_date_tasks", <<d>>, delete_date_tasks(planner[p], d))

DeleteAllTasks(p) ==
    /\ Callable(p)
    /\ Invoke(p, "delete_all_tasks", <<>>, delete_all_tasks(planner[p]))

ValidateTaskQuery(p, inputs) ==
    /\ Callable(p)
    /\ \E q \in inputs :
         Invoke(p, "validate_task_query", <<q>>,
                [self |-> planner[p], ret |-> validate_task_query(planner[p], q)])

\* _task_key_check called on its own, as the field check of
\* tests/test_db_access.py is.
TaskKeyCheck(p, inputs) ==
    /\ Callable(p)
    /\ \E q \in inputs :
         Invoke(p, "_task_key_check", <<q>>,
                [self |-> planner[p], ret |-> task_key_check(planner[p], q)])

\* The caller takes the returned value and goes on.
Return ==
    /\ call.op # "<none>"
    /\ call' = NoCall
    /\ UNCHANGED <<fs, pc, planner, exists_rv, load_rc, connect_rc, pinged, exc>>

-----------------------------------------------------------------------------
(* Specifications *)

InitObjects ==
    /\ pc = [p \in Planners |-> "idle"]
    /\ planner = [p \in Planners |-> Blank]
    /\ exists_rv = [p \in Planners |-> NotSet]
    /\ load_rc = [p \in Planners |-> NotSet]
    /\ connect_rc = [p \in Planners |-> NotSet]
    /\ pinged = [p \in Planners |-> NoPing]
    /\ exc = [p \in Planners |-> NoException]
    /\ call = NoCall

Init == fs \in FileStates /\ InitObjects

Construct(p) ==
    \/ Begin(p)
    \/ LoadExists(p)
    \/ LoadOpen(p)
    \/ ConnectClient(p)
    \/ ConnectPing(p)
    \/ Finish(p)

Next ==
    \/ \E p \in Planners : Construct(p)
    \/ WriteConfig
    \/ RemoveConfig
    \/ \E p \in Planners : InsertTask(p)
    \/ \E p \in Planners : DeleteTask(p)
    \/ \E p \in Planners : UpdateTask(p)
    \/ \E p \in Planners : GetTasks(p)
    \/ \E p \in Planners : DeleteDateTasks(p)
    \/ \E p \in Planners : DeleteAllTasks(p)
    \/ \E p \in Planners : ValidateTaskQuery(p, TestQueries)
    \/ Return

Spec == Init /\ [][Next]_vars

\* The validation predicate on every query of the bounded universe, called
\* on objects constructed with config.json absent or well formed.
InitValidate == fs \in {Absent, JsonFile(GoodConfig)} /\ InitObjects

NextValidate ==
    \/ \E p \in Planners : Construct(p)
    \/ RemoveConfig
    \/ \E p \in Planners : ValidateTaskQuery(p, Queries)
    \/ \E p \in Planners : TaskKeyCheck(p, Queries)
    \/ Return

ValidateSpec == InitValidate /\ [][NextValidate]_vars

-----------------------------------------------------------------------------
(* Properties *)

Done(p) == pc[p] = "done"

\* _connect was called during p's construction and has returned or raised.
ConnectReturned(p) ==
    load_rc[p] = OK /\ pc[p] \in {"connect_ping", "finish", "done", "raised"}

PingOk == [exc |-> NoException, ok |-> "1.0"]

\* The call that has just returned is validate_task_query.
Validated == call.op = "validate_task_query"

\* A dict holding exactly the two task fields, a date and a non-empty str.
WellFormedTask(q) ==
    /\ q.type = "dict"
    /\ Len(q.items) = 2
    /\ {q.items[i][1] : i \in 1..Len(q.items)} = {PyStr("date"), PyStr("task_desc")}
    /\ \A i \in 1..Len(q.items) :
         /\ q.items[i][1] = PyStr("date") => q.items[i][2].type = "date"
         /\ q.items[i][1] = PyStr("task_desc") =>
              q.items[i][2].type = "str" /\ q.items[i][2].val # ""

C2_OkIffLoadedAndConnected ==
    \A p \in Planners :
        Done(p) =>
            /\ get_initialization_code(planner[p]) = OK
                 <=> (load_rc[p] = OK /\ connect_rc[p] = OK)
            /\ get_initialization_code(planner[p]) = OK
                 <=> (planner[p].config # NoDocument /\ pinged[p] = PingOk)
            /\ get_initialization_code(planner[p]) \in {OK, FAIL}

C2_Witness ==
    /\ Done(1) /\ get_initialization_code(planner[1]) = OK
    /\ Done(2) /\ get_initialization_code(planner[2]) = FAIL
    /\ load_rc[2] = OK

\* The outcomes of a construction that the reported code is to tell apart.
Outcome(p) ==
    IF load_rc[p] = MISSING_CONFIG THEN "config not found"
    ELSE IF load_rc[p] = BAD_CONFIG \/ connect_rc[p] = BAD_CONFIG
    THEN "config has bad contents"
    ELSE IF load_rc[p] = OK /\ pinged[p].exc = "ServerSelectionTimeoutError"
    THEN "config found, connection timed out"
    ELSE IF load_rc[p] = OK /\ connect_rc[p] = OK
    THEN "config found, connection succeeded"
    ELSE "other"

\* C3: the code an object reports after construction tells the outcomes
\* apart: two completed constructions with different outcomes (connected,
\* timed out, bad config contents, config not found) report different codes.
C3_CodesTellOutcomesApart ==
    \A p, q \in Planners :
        (/\ Done(p) /\ Done(q)
         /\ Outcome(p) # "other" /\ Outcome(q) # "other"
         /\ Outcome(p) # Outcome(q))
            => get_initialization_code(planner[p])
                 # get_initialization_code(planner[q])

\* C4: whatever config.json holds and however the database answers, a
\* construction completes without an exception escaping, with init_state
\* OK or FAIL.
C4_ConstructionNeverRaises ==
    \A p \in Planners :
        /\ pc[p] # "raised"
        /\ exc[p] = NoException
        /\ Done(p) => planner[p].init_state \in {OK, FAIL}

\* C5: the query methods and validate_task_query change no attribute of a
\* constructed object, so get_initialization_code() keeps returning what
\* it returned right after construction.
C5_QueriesChangeNothing ==
    [][\A p \in Planners :
         Done(p) =>
            /\ planner'[p] = planner[p]
            /\ get_initialization_code(planner'[p])
                 = get_initialization_code(planner[p])]_vars

C5_Witness ==
    /\ call.op = "insert_task"
    /\ call.self = 1
    /\ planner[1].init_state = OK
    /\ planner[1].client = Client
    /\ planner[1].db_name = "planner_db"

\* C6: _connect is attempted only after _load_config has returned OK, with
\* self.config assigned; when loading fails no client is built and no ping
\* is sent.
C6_ConnectOnlyAfterLoadOk ==
    \A p \in Planners :
        /\ (\/ pc[p] \in {"connect_client", "connect_ping"}
            \/ connect_rc[p] # NotSet
            \/ planner[p].client # NoClient
            \/ pinged[p] # NoPing)
              => load_rc[p] = OK /\ planner[p].config # NoDocument
        /\ load_rc[p] \in {MISSING_CONFIG, BAD_CONFIG}
              => /\ planner[p].client = NoClient
                 /\ pinged[p] = NoPing
                 /\ connect_rc[p] = NotSet
                 /\ exc[p] = NoException

C6_Witness ==
    /\ Done(1) /\ load_rc[1] = BAD_CONFIG
    /\ pc[2] = "connect_client" /\ planner[2].config = GoodConfig

\* The construction of p is past _load_config and config.json is as it was
\* when _load_config opened it.
JustLoaded(p) == pc[p] \in {"connect_client", "connect_ping", "finish"}

C8_ConnectCodes ==
    \A p \in Planners :
        /\ connect_rc[p] = OK
              => planner[p].client = Client /\ pinged[p] = PingOk
        /\ (\/ pinged[p].exc = "ServerSelectionTimeoutError"
            \/ pinged[p].exc = NoException /\ pinged[p].ok \notin {"1.0", NoPing.ok})
              => connect_rc[p] = DATABASE_UNREACHABLE
        /\ (ConnectReturned(p) /\ client_exception(planner[p].config) = "TypeError")
              => connect_rc[p] = BAD_CONFIG
        /\ connect_rc[p] = BAD_CONFIG
              => pinged[p] = NoPing /\ planner[p].client = NoClient

C8_Witness ==
    /\ connect_rc[1] = BAD_CONFIG
    /\ connect_rc[2] = DATABASE_UNREACHABLE /\ pinged[2].ok = "0.0"

\* C9: validate_task_query never raises: a non-dict yields False, the value
\* check is reached only once the key check has found both keys, and the
\* result is the same on every constructed object, whether its
\* initialization ended in OK or in FAIL.
C9_ValidateNeverRaises ==
    Validated =>
        /\ call.ret \in {"True", "False"}
        /\ call.args[1].type # "dict" => call.ret = "False"
        /\ task_key_check(planner[call.self], call.args[1]) # "True"
              => call.ret = "False"
        /\ \A p \in Planners :
              Done(p) => validate_task_query(planner[p], call.args[1]) = call.ret

C9_Witness ==
    /\ Validated
    /\ call.args[1].type = "dict"
    /\ task_value_check(planner[call.self], call.args[1]) = "KeyError"
    /\ planner[call.self].init_state = FAIL
    /\ \E p \in Planners : Done(p) /\ planner[p].init_state = OK

\* The same dict with its two items inserted in the other order.
Swapped(q) == Mapping(q.type, <<q.items[2], q.items[1]>>)

HasTaskKeys(q) ==
    /\ q.type = "dict"
    /\ Len(q.items) = 2
    /\ {q.items[1][1], q.items[2][1]} = {PyStr("date"), PyStr("task_desc")}

\* C10: the order of the two keys does not matter: for all values d and s,
\* validate_task_query({'date': d, 'task_desc': s}) equals
\* validate_task_query({'task_desc': s, 'date': d}).
C10_KeyOrderIrrelevant ==
    (Validated /\ HasTaskKeys(call.args[1]))
        => call.ret = validate_task_query(planner[call.self], Swapped(call.args[1]))

C10_Witness ==
    /\ Validated
    /\ HasTaskKeys(call.args[1])
    /\ call.args[1].items[1][1] = PyStr("task_desc")
    /\ call.ret = "True"

\* The call that has just returned is _task_key_check on a dict.
KeyChecked == call.op = "_task_key_check" /\ call.args[1].type \in DictTypes

\* The same mapping with every value replaced by v.
WithValues(q, v) ==
    Mapping(q.type, [i \in 1..Len(q.items) |-> <<q.items[i][1], v>>])

====
